---- MODULE Spec2Model ----
(***************************************************************************)
(* Image upload portal: the URL builder and its inverse                    *)
(* (services/cloudinary.ts), the upload clients (services/cloudinary.ts,   *)
(* services/firebase.ts), the upload screen's in-memory image registry     *)
(* (app/(tabs)/index.tsx) and the persisted ImageContext registry          *)
(* (contexts/ImageContext.tsx as listed in the technical guide).           *)
(*                                                                         *)
(* Strings the code takes apart (URLs, asset ids, directives) are          *)
(* sequences of one-character strings; strings the code only passes        *)
(* around (file names, hosted URLs handed back by a backend) are TLA+      *)
(* strings.                                                                *)
(***************************************************************************)
EXTENDS Integers, Sequences, FiniteSets

VARIABLES
    \* ---- URL builder / extractor (pure functions under test)
    publicId,        \* argument of getOptimizedImageUrl
    options,         \* options bag of getOptimizedImageUrl
    url,             \* value returned by getOptimizedImageUrl
    extracted,       \* value returned by extractPublicIdFromUrl
    urlPc,           \* "args" -> "built" -> "extracted"
    \* ---- upload clients
    calls,           \* the invocations of uploadImageToCloudinary / uploadImageToFirebase
    now,             \* the value Date.now() returns
    \* ---- upload screen, app/(tabs)/index.tsx
    uploadedImages,  \* useState<UploadedImage[]>([])
    uploading,       \* useState(false)
    dragActive,      \* useState(false)
    uploads,         \* per upload slot: where its pickImage / handleDrop / handleImageUpload stands
    \* ---- contexts/ImageContext.tsx
    ctxPc,           \* "unmounted" | "loading" (loadImages awaits getItem) | "loaded"
    images,          \* useState<ImageData[]>([])
    loading,         \* useState(true)
    closureImages,   \* the images captured by addImage / removeImage of the last render
    stored,          \* the AsyncStorage entry 'uploaded_images'
    ctxOps           \* the calls of addImage / removeImage

urlVars == <<publicId, options, url, extracted, urlPc>>

clientVars == <<calls, now>>

screenVars == <<uploadedImages, uploading, dragActive, uploads>>

ctxVars == <<ctxPc, images, loading, closureImages, stored, ctxOps>>

vars == <<urlVars, clientVars, screenVars, ctxVars>>

(***************************************************************************)
(* Bounds                                                                  *)
(***************************************************************************)
\* numeric option values 1..MaxSmallNum are tried next to 0 and the
\* values of the documented scenario (400, 300)
MaxSmallNum == 1

\* upload client invocations made in one run
MaxCalls == 2

\* Date.now() runs from 1 to MaxClock
MaxClock == 2
MaxBytes == 2

(***************************************************************************)
(* Text helpers                                                            *)
(***************************************************************************)
Digits == <<"0", "1", "2", "3", "4", "5", "6", "7", "8", "9">>

IsDigit(c) == \E d \in 1..10 : Digits[d] = c

\* `${n}` for a non-negative integer n
RECURSIVE NumberToString(_)
NumberToString(n) ==
    IF n < 10 THEN <<Digits[n + 1]>>
    ELSE NumberToString(n \div 10) \o <<Digits[(n % 10) + 1]>>

\* Array.prototype.join(sep) on an array of strings
RECURSIVE Join(_, _)
Join(parts, sep) ==
    IF Len(parts) = 0 THEN <<>>
    ELSE IF Len(parts) = 1 THEN parts[1]
    ELSE parts[1] \o sep \o Join(Tail(parts), sep)

\* does pat occur in s at position i
IsAt(s, i, pat) ==
    /\ i >= 1
    /\ i + Len(pat) - 1 <= Len(s)
    /\ SubSeq(s, i, i + Len(pat) - 1) = pat

\* an optional field of an options bag: <<>> is undefined, <<v>> is v
Undefined == <<>>
Some(v) == <<v>>
IsDefined(o) == o # <<>>

\* quality?: 'auto' | number
QAuto == [kind |-> "auto", n |-> 0]
QNum(n) == [kind |-> "num", n |-> n]

(***************************************************************************)
(* services/cloudinary.ts: configuration                                   *)
(***************************************************************************)
CLOUDINARY_CLOUD_NAME ==
    <<"y", "o", "u", "r", "-", "c", "l", "o", "u", "d", "-", "n", "a", "m", "e">>

ResHost ==
    <<"h", "t", "t", "p", "s", ":", "/", "/", "r", "e", "s", ".", "c", "l", "o",
      "u", "d", "i", "n", "a", "r", "y", ".", "c", "o", "m", "/">>

ImageUploadPath ==
    <<"/", "i", "m", "a", "g", "e", "/", "u", "p", "l", "o", "a", "d", "/">>

UrlPrefix == ResHost \o CLOUDINARY_CLOUD_NAME \o ImageUploadPath

S_auto == <<"a", "u", "t", "o">>
S_webp == <<"w", "e", "b", "p">>
S_jpg == <<"j", "p", "g">>
S_png == <<"p", "n", "g">>
S_fill == <<"f", "i", "l", "l">>
S_fit == <<"f", "i", "t">>
S_scale == <<"s", "c", "a", "l", "e">>
S_crop == <<"c", "r", "o", "p">>

(***************************************************************************)
(* services/cloudinary.ts: getOptimizedImageUrl                            *)
(***************************************************************************)
\* JavaScript truthiness of an optional number: undefined, 0 are falsy
TruthyNum(o) == IsDefined(o) /\ o[1] # 0

\* JavaScript truthiness of 'auto' | number
TruthyQuality(q) == q.kind = "auto" \/ q.n # 0

\* JavaScript truthiness of a string
TruthyStr(s) == Len(s) > 0

QualityText(q) == IF q.kind = "auto" THEN S_auto ELSE NumberToString(q.n)

\* the destructuring defaults: quality = 'auto', format = 'auto', crop = 'fill'
WithDefault(o, dflt) == IF IsDefined(o) THEN o[1] ELSE dflt

\* the transformations array with the quality directive pushed before the
\* crop directive
Transformations_QualityBeforeCrop(opts) ==
    LET width == opts.width
        height == opts.height
        quality == WithDefault(opts.quality, QAuto)
        format == WithDefault(opts.format, S_auto)
        crop == WithDefault(opts.crop, S_fill)
        hasDim == TruthyNum(width) \/ TruthyNum(height)
        dimensions ==
            (IF TruthyNum(width) THEN <<<<"w", "_">> \o NumberToString(width[1])>> ELSE <<>>)
            \o (IF TruthyNum(height) THEN <<<<"h", "_">> \o NumberToString(height[1])>> ELSE <<>>)
        t1 == IF hasDim THEN <<Join(dimensions, <<",">>)>> ELSE <<>>
        t2 == IF TruthyStr(crop) /\ hasDim THEN <<<<"c", "_">> \o crop>> ELSE <<>>
        t3 == IF TruthyQuality(quality) THEN <<<<"q", "_">> \o QualityText(quality)>> ELSE <<>>
        t4 == IF TruthyStr(format) THEN <<<<"f", "_">> \o format>> ELSE <<>>
    IN  t1 \o t3 \o t2 \o t4

\* the transformations array with the crop directive pushed whenever a crop
\* mode is set, dimension or not
Transformations_CropWithoutDimension(opts) ==
    LET width == opts.width
        height == opts.height
        quality == WithDefault(opts.quality, QAuto)
        format == WithDefault(opts.format, S_auto)
        crop == WithDefault(opts.crop, S_fill)
        hasDim == TruthyNum(width) \/ TruthyNum(height)
        dimensions ==
            (IF TruthyNum(width) THEN <<<<"w", "_">> \o NumberToString(width[1])>> ELSE <<>>)
            \o (IF TruthyNum(height) THEN <<<<"h", "_">> \o NumberToString(height[1])>> ELSE <<>>)
        t1 == IF hasDim THEN <<Join(dimensions, <<",">>)>> ELSE <<>>
        t2 == IF TruthyStr(crop) THEN <<<<"c", "_">> \o crop>> ELSE <<>>
        t3 == IF TruthyQuality(quality) THEN <<<<"q", "_">> \o QualityText(quality)>> ELSE <<>>
        t4 == IF TruthyStr(format) THEN <<<<"f", "_">> \o format>> ELSE <<>>
    IN  t1 \o t2 \o t3 \o t4

\* the transformations array, in the order the code pushes to it
Transformations(opts) ==
    LET width == opts.width
        height == opts.height
        quality == WithDefault(opts.quality, QAuto)
        format == WithDefault(opts.format, S_auto)
        crop == WithDefault(opts.crop, S_fill)
        hasDim == TruthyNum(width) \/ TruthyNum(height)
        dimensions ==
            (IF TruthyNum(width) THEN <<<<"w", "_">> \o NumberToString(width[1])>> ELSE <<>>)
            \o (IF TruthyNum(height) THEN <<<<"h", "_">> \o NumberToString(height[1])>> ELSE <<>>)
        t1 == IF hasDim THEN <<Join(dimensions, <<",">>)>> ELSE <<>>
        t2 == IF TruthyStr(crop) /\ hasDim THEN <<<<"c", "_">> \o crop>> ELSE <<>>
        t3 == IF TruthyQuality(quality) THEN <<<<"q", "_">> \o QualityText(quality)>> ELSE <<>>
        t4 == IF TruthyStr(format) THEN <<<<"f", "_">> \o format>> ELSE <<>>
    IN  t1 \o t2 \o t3 \o t4

\* getOptimizedImageUrl with the directives joined by "/" instead of ","
getOptimizedImageUrl_SlashJoined(id, opts) ==
    LET transformations == Transformations(opts)
        transformationString ==
            IF Len(transformations) > 0
            THEN Join(transformations, <<"/">>) \o <<"/">>
            ELSE <<>>
    IN  UrlPrefix \o transformationString \o id

\* the builder with the slash between the directives and the asset id left out
getOptimizedImageUrl_NoSlash(id, opts) ==
    LET transformations == Transformations(opts)
        transformationString ==
            IF Len(transformations) > 0
            THEN Join(transformations, <<",">>)
            ELSE <<>>
    IN  UrlPrefix \o transformationString \o id

getOptimizedImageUrl(id, opts) ==
    LET transformations == Transformations(opts)
        transformationString ==
            IF Len(transformations) > 0
            THEN Join(transformations, <<",">>) \o <<"/">>
            ELSE <<>>
    IN  UrlPrefix \o transformationString \o id

(***************************************************************************)
(* services/cloudinary.ts: extractPublicIdFromUrl                          *)
(*   url.match(/\/upload\/(?:v\d+\/)?(.+)\.[^.]+$/)                        *)
(***************************************************************************)
UploadSegment == <<"/", "u", "p", "l", "o", "a", "d", "/">>

\* `.` of a JavaScript regular expression matches no line terminator
LineTerminators == {"\n", "\r"}

\* index of the last "." of s, 0 when there is none
LastDot(s) ==
    LET dots == {i \in 1..Len(s) : s[i] = "."}
    IN  IF dots = {} THEN 0 ELSE CHOOSE i \in dots : \A j \in dots : j <= i

\* (?:v\d+\/) at position j: the index after the closing slash, 0 on no match
VersionEnd(s, j) ==
    IF j <= Len(s) /\ s[j] = "v"
    THEN LET ends == {k \in (j + 2)..Len(s) :
                         /\ s[k] = "/"
                         /\ \A d \in (j + 1)..(k - 1) : IsDigit(s[d])}
         IN  IF ends = {} THEN 0
             ELSE (CHOOSE k \in ends : \A m \in ends : k <= m) + 1
    ELSE 0

\* (.+)\.[^.]+$ with the group starting at g: the escaped dot is the last
\* dot of the string, the group is greedy up to it
TailMatches(s, g) ==
    LET d == LastDot(s)
    IN  /\ g >= 1
        /\ d > g
        /\ d < Len(s)
        /\ \A i \in g..(d - 1) : s[i] \notin LineTerminators

\* the pattern without its optional version: /\/upload\/(.+)\.[^.]+$/
GroupStart_VersionKept(s, i) ==
    LET afterUpload == i + Len(UploadSegment)
    IN  IF TailMatches(s, afterUpload) THEN afterUpload ELSE 0

\* start of the captured group when the match is attempted at "/upload/"
\* found at i: the optional version is tried first, then skipped
GroupStart(s, i) ==
    LET afterUpload == i + Len(UploadSegment)
        v == VersionEnd(s, afterUpload)
    IN  IF v > 0 /\ TailMatches(s, v) THEN v
        ELSE IF TailMatches(s, afterUpload) THEN afterUpload
        ELSE 0

extractPublicIdFromUrl(s) ==
    LET starts == {i \in 1..Len(s) : IsAt(s, i, UploadSegment) /\ GroupStart(s, i) > 0}
    IN  IF starts = {} THEN <<>>
        ELSE LET i == CHOOSE k \in starts : \A m \in starts : k <= m
             IN  SubSeq(s, GroupStart(s, i), LastDot(s) - 1)

(***************************************************************************)
(* Inputs of the URL functions                                             *)
(***************************************************************************)
Id_abc123 == <<"a", "b", "c", "1", "2", "3">>
Id_abc123_jpg == <<"a", "b", "c", "1", "2", "3", ".", "j", "p", "g">>
Id_folder_png == <<"u", "p", "l", "o", "a", "d", "s", "/", "c", "a", "t", ".", "p", "n", "g">>
Id_version_jpg == <<"v", "1", "/", "a", ".", "j", "p", "g">>
Id_dots_webp == <<"a", ".", "b", ".", "w", "e", "b", "p">>

PublicIds == {Id_abc123, Id_abc123_jpg, Id_folder_png, Id_version_jpg, Id_dots_webp}

SmallNums == 0..MaxSmallNum
Widths == SmallNums \cup {400}
Heights == SmallNums \cup {300}
Qualities == {QAuto} \cup {QNum(n) : n \in SmallNums \cup {80}}
Formats == {S_auto, S_webp, S_jpg, S_png}
Crops == {S_fill, S_fit, S_scale, S_crop}

Optional(S) == {Undefined} \cup {Some(v) : v \in S}

\* strings handed to extractPublicIdFromUrl that no builder made: delivery
\* URLs with and without a version segment, with and without an extension,
\* a URL of another host, and the empty string
DeliveredUrls ==
    {UrlPrefix \o <<"v", "1", "/", "u", "p", "l", "o", "a", "d", "s", "/", "a", ".", "j", "p", "g">>,
     UrlPrefix \o Id_abc123_jpg,
     UrlPrefix \o <<"v", "1", "/", "a", "b", "c">>,
     UrlPrefix \o <<"v", "1", "/", ".", "j", "p", "g">>,
     <<"h", "t", "t", "p", "s", ":", "/", "/", "e", "x", ".", "i", "o", "/", "a", ".", "j", "p", "g">>,
     <<>>}

OptionBags ==
    [width : Optional(Widths), height : Optional(Heights),
     quality : Optional(Qualities), format : Optional(Formats),
     crop : Optional(Crops)]

\* getOptimizedImageUrl(publicId) with the options argument left out
NoOptions ==
    [width |-> Undefined, height |-> Undefined, quality |-> Undefined,
     format |-> Undefined, crop |-> Undefined]

(***************************************************************************)
(* services/cloudinary.ts, services/firebase.ts: the upload clients        *)
(***************************************************************************)
CLOUDINARY_UPLOAD_PRESET ==
    <<"y", "o", "u", "r", "-", "u", "p", "l", "o", "a", "d", "-", "p", "r",
      "e", "s", "e", "t">>

UploadsFolder == <<"u", "p", "l", "o", "a", "d", "s">>

ImagesFolder == <<"i", "m", "a", "g", "e", "s", "/">>

CloudinaryErrorPrefix ==
    <<"F", "a", "i", "l", "e", "d", " ", "t", "o", " ", "u", "p", "l", "o",
      "a", "d", " ", "i", "m", "a", "g", "e", " ", "t", "o", " ", "C", "l",
      "o", "u", "d", "i", "n", "a", "r", "y", ":", " ">>

UploadFailedPrefix ==
    <<"U", "p", "l", "o", "a", "d", " ", "f", "a", "i", "l", "e", "d", ":", " ">>

UnknownErrorText ==
    <<"U", "n", "k", "n", "o", "w", "n", " ", "e", "r", "r", "o", "r">>

FirebaseErrorText ==
    <<"F", "a", "i", "l", "e", "d", " ", "t", "o", " ", "u", "p", "l", "o",
      "a", "d", " ", "i", "m", "a", "g", "e", " ", "t", "o", " ", "F", "i",
      "r", "e", "b", "a", "s", "e">>

DataPrefix == <<"d", "a", "t", "a", ":">>

\* String.prototype.startsWith
StartsWith(s, prefix) == IsAt(s, 1, prefix)

\* ---- what the environment can answer

\* a thrown value: an instance of an Error class with a message, or a value
\* that is no Error at all
NoError == [name |-> "none", message |-> <<>>]

NetworkError ==
    [name |-> "TypeError",
     message |-> <<"N", "e", "t", "w", "o", "r", "k", " ", "r", "e", "q", "u",
                   "e", "s", "t", " ", "f", "a", "i", "l", "e", "d">>]

ParseError ==
    [name |-> "SyntaxError",
     message |-> <<"U", "n", "e", "x", "p", "e", "c", "t", "e", "d", " ", "t",
                   "o", "k", "e", "n", " ", "<">>]

StorageError ==
    [name |-> "FirebaseError",
     message |-> <<"s", "t", "o", "r", "a", "g", "e", "/", "u", "n", "a", "u",
                   "t", "h", "o", "r", "i", "z", "e", "d">>]

NonErrorValue == [name |-> "NotAnError", message |-> <<>>]

\* error instanceof Error
InstanceOfError(e) == e.name \notin {"none", "NotAnError"}

\* rejections of fetch(), response.blob(), response.text()
FetchRejections == {NetworkError, NonErrorValue}

\* rejections of response.json()
JsonRejections == {ParseError}

\* rejections of uploadBytes() and getDownloadURL()
StorageRejections == {StorageError}

NoResponse == [status |-> 0, statusText |-> <<>>]

Responses ==
    {[status |-> 200, statusText |-> <<"O", "K">>],
     [status |-> 400, statusText |-> <<"B", "a", "d", " ", "R", "e", "q", "u", "e", "s", "t">>]}

\* Response.ok
Ok(response) == response.status >= 200 /\ response.status <= 299

\* a hosted URL, or another string of a backend answer: the host and the path
HostedUrl(host, path) == [host |-> host, path |-> path]

\* CloudinaryResponse payloads (the string fields the client could return)
Payloads ==
    {[secure_url |->
          HostedUrl("res.cloudinary.com",
                    <<"v", "1", "/", "u", "p", "l", "o", "a", "d", "s", "/", "a", ".", "j", "p", "g">>),
      public_id |->
          HostedUrl("", <<"u", "p", "l", "o", "a", "d", "s", "/", "a">>)]}

\* ---- inputs
DataUri ==
    <<"d", "a", "t", "a", ":", "i", "m", "a", "g", "e", "/", "p", "n", "g",
      ";", "b", "a", "s", "e", "6", "4", ",", "i", "V", "B", "O", "R">>

FileUri ==
    <<"f", "i", "l", "e", ":", "/", "/", "/", "t", "m", "p", "/", "p", "h",
      "o", "t", "o", ".", "j", "p", "g">>

Name_photo_jpg == <<"p", "h", "o", "t", "o", ".", "j", "p", "g">>

Name_drop_png == <<"d", "r", "o", "p", ".", "p", "n", "g">>

\* what the callers pass: a picked asset (file URI and its file name) or a
\* dropped file read as a data: URL (with the name of the dropped file)
Sources ==
    {[uri |-> FileUri, name |-> Name_photo_jpg],
     [uri |-> DataUri, name |-> Name_drop_png]}

Name_my_pic_png == <<"m", "y", ".", "p", "i", "c", ".", "p", "n", "g">>

LibraryUri ==
    <<"f", "i", "l", "e", ":", "/", "/", "/", "l", "i", "b", "/", "m", "y",
      ".", "p", "i", "c", ".", "p", "n", "g">>

\* what uploadImageToCloudinary is called with: the sources above and a file
\* URI whose name has two dots and an extension other than jpg
CloudinarySources ==
    Sources \cup {[uri |-> LibraryUri, name |-> Name_my_pic_png]}

CallIds == 1..MaxCalls

\* ---- one invocation
IdleCall ==
    [fn |-> "none", caller |-> "none", pc |-> "idle",
     imageUri |-> <<>>, fileName |-> <<>>,
     formData |-> <<>>, imageRef |-> <<>>, posts |-> 0,
     response |-> NoResponse, payload |-> <<>>, failure |-> "none",
     result |-> <<>>, error |-> NoError,
     task |-> <<>>, progress |-> <<>>]

Settled(c) == c.pc \in {"resolved", "rejected"}

\* an invocation whose caller has taken its outcome: nothing refers to the
\* promise any longer
ReleasedCall == [IdleCall EXCEPT !.pc = "released"]

\* fileName.split('.')
SplitOnDot(name) ==
    LET dots == {i \in 1..Len(name) : name[i] = "."}
        RECURSIVE Pieces(_)
        Pieces(from) ==
            LET later == {i \in dots : i >= from}
            IN  IF later = {} THEN <<SubSeq(name, from, Len(name))>>
                ELSE LET k == CHOOSE i \in later : \A j \in later : i <= j
                     IN  <<SubSeq(name, from, k - 1)>> \o Pieces(k + 1)
    IN  Pieces(1)

\* fileName.split('.').pop() || 'jpg'
FileExtension(name) ==
    LET last == SplitOnDot(name)[Len(SplitOnDot(name))]
    IN  IF Len(last) = 0 THEN S_jpg ELSE last

\* `image/${fileExtension}` without the special case of jpg
MimeType_NoJpegCase(name) == <<"i", "m", "a", "g", "e", "/">> \o FileExtension(name)

\* `image/${fileExtension === 'jpg' ? 'jpeg' : fileExtension}`
MimeType(name) ==
    <<"i", "m", "a", "g", "e", "/">>
    \o (IF FileExtension(name) = S_jpg THEN <<"j", "p", "e", "g">> ELSE FileExtension(name))

FormField(name, kind, text, type, fileName) ==
    [name |-> name, kind |-> kind, text |-> text, type |-> type, fileName |-> fileName]

\* formData.append('file', blob, fileName)
BlobField(uri, name) == FormField("file", "blob", uri, <<>>, name)

\* formData.append('file', {uri, type, name})
UriField(uri, name) == FormField("file", "uri", uri, MimeType(name), name)

\* the appends of upload_preset, folder and public_id
MetadataFields(name, t) ==
    <<FormField("upload_preset", "string", CLOUDINARY_UPLOAD_PRESET, <<>>, <<>>),
      FormField("folder", "string", UploadsFolder, <<>>, <<>>),
      FormField("public_id", "string",
                NumberToString(t) \o <<"_">> \o SplitOnDot(name)[1], <<>>, <<>>)>>

\* ref(storage, `images/${Date.now()}_${fileName}`)
ImageRef(name, t) == ImagesFolder \o NumberToString(t) \o <<"_">> \o name

\* the download URL the storage backend hands out for an object path
DownloadUrl(ref) == HostedUrl("firebasestorage.googleapis.com", ref)

\* throw new Error(`Upload failed: ${response.status} ${response.statusText}`)
StatusError(response) ==
    [name |-> "Error",
     message |-> UploadFailedPrefix \o NumberToString(response.status)
                 \o <<" ">> \o response.statusText]

\* the catch block of uploadImageToCloudinary rethrowing what it caught
CloudinaryCatch_Rethrow(error) == error

\* the catch block of uploadImageToCloudinary
CloudinaryCatch(error) ==
    [name |-> "Error",
     message |-> CloudinaryErrorPrefix
                 \o (IF InstanceOfError(error) THEN error.message ELSE UnknownErrorText)]

\* the catch block of uploadImageToFirebase passing on the message it caught
FirebaseCatch_WithCause(error) ==
    [name |-> "Error", message |-> FirebaseErrorText \o <<":", " ">> \o error.message]

\* the catch block of uploadImageToFirebase
FirebaseCatch(error) == [name |-> "Error", message |-> FirebaseErrorText]

\* return result.public_id in place of result.secure_url
CloudinaryResult_PublicId(payload) == payload.public_id

\* return result.secure_url
CloudinaryResult(payload) == payload.secure_url

Reject(c, failure, error) ==
    [c EXCEPT !.pc = "rejected", !.failure = failure, !.error = error]

\* the POST issued with a first report to onProgress
IssuePost_ReportsProgress(c, fileField, t) ==
    [c EXCEPT !.formData = <<fileField>> \o MetadataFields(c.fileName, t),
              !.posts = c.posts + 1,
              !.progress = Append(c.progress, 0),
              !.pc = "post"]

\* the call with the POST issued: fetch(CLOUDINARY_API_URL, {method: 'POST', ...})
IssuePost(c, fileField, t) ==
    [c EXCEPT !.formData = <<fileField>> \o MetadataFields(c.fileName, t),
              !.posts = c.posts + 1,
              !.pc = "post"]

\* the synchronous start of uploadImageToCloudinary, up to its first await
StartCloudinary(caller, uri, name, t) ==
    LET c == [IdleCall EXCEPT !.fn = "cloudinary", !.caller = caller,
                              !.imageUri = uri, !.fileName = name]
    IN  IF StartsWith(uri, DataPrefix)
        THEN [c EXCEPT !.pc = "dataFetch"]
        ELSE IssuePost(c, UriField(uri, name), t)

\* the synchronous start of uploadImageToFirebase, up to its first await
StartFirebase(caller, uri, name, t) ==
    [IdleCall EXCEPT !.fn = "firebase", !.caller = caller,
                     !.imageUri = uri, !.fileName = name,
                     !.imageRef = ImageRef(name, t), !.pc = "fbFetch"]

\* calls are used in index order
NextCallId(id) == calls[id].pc = "idle" /\ \A j \in 1..(id - 1) : calls[j].pc # "idle"

\* ---- actions of the clock and of uploadImageToCloudinary

Tick ==
    /\ now < MaxClock
    /\ now' = now + 1
    /\ UNCHANGED <<calls, urlVars, screenVars, ctxVars>>

\* uploadImageToCloudinary(src.uri, src.name, onProgress) called directly
CallCloudinary(id, src) ==
    /\ NextCallId(id)
    /\ calls' = [calls EXCEPT ![id] = StartCloudinary("direct", src.uri, src.name, now)]
    /\ UNCHANGED <<now, urlVars, screenVars, ctxVars>>

InvokeCloudinary(id) == \E src \in Sources : CallCloudinary(id, src)

\* await fetch(imageUri) of a data: URL settles
DataFetchSettles(id) ==
    /\ calls[id].pc = "dataFetch"
    /\ \/ calls' = [calls EXCEPT ![id].pc = "blob"]
       \/ \E e \in FetchRejections :
              calls' = [calls EXCEPT ![id] = Reject(@, "dataFetch", CloudinaryCatch(e))]
    /\ UNCHANGED <<now, urlVars, screenVars, ctxVars>>

\* await response.blob() settles; on success the form is completed and posted
BlobSettles(id) ==
    /\ calls[id].pc = "blob"
    /\ \/ calls' = [calls EXCEPT ![id] =
                        IssuePost(@, BlobField(@.imageUri, @.fileName), now)]
       \/ \E e \in FetchRejections :
              calls' = [calls EXCEPT ![id] = Reject(@, "blob", CloudinaryCatch(e))]
    /\ UNCHANGED <<now, urlVars, screenVars, ctxVars>>

\* one request shared by the calls that are waiting for the answer to their
\* POST: the answer to one settles them all
PostSettles_Shared(id) ==
    /\ calls[id].pc = "post"
    /\ \/ \E r \in Responses :
              calls' = [j \in CallIds |->
                           IF calls[j].pc = "post"
                           THEN [calls[j] EXCEPT !.response = r,
                                                 !.pc = IF Ok(r) THEN "json" ELSE "text"]
                           ELSE calls[j]]
       \/ \E e \in FetchRejections :
              calls' = [j \in CallIds |->
                           IF calls[j].pc = "post"
                           THEN Reject(calls[j], "post", CloudinaryCatch(e))
                           ELSE calls[j]]
    /\ UNCHANGED <<now, urlVars, screenVars, ctxVars>>

\* a POST that is issued again when it was rejected or answered with a
\* non-success status
PostSettles_Retry(id) ==
    /\ calls[id].pc = "post"
    /\ \/ \E r \in Responses :
              calls' = [calls EXCEPT ![id].response = r,
                                     ![id].posts = IF Ok(r) THEN @ ELSE @ + 1,
                                     ![id].pc = IF Ok(r) THEN "json" ELSE "post"]
       \/ calls' = [calls EXCEPT ![id].posts = @ + 1]
    /\ UNCHANGED <<now, urlVars, screenVars, ctxVars>>

\* await fetch(CLOUDINARY_API_URL, ...) settles
PostSettles(id) ==
    /\ calls[id].pc = "post"
    /\ \/ \E r \in Responses :
              calls' = [calls EXCEPT ![id].response = r,
                                     ![id].pc = IF Ok(r) THEN "json" ELSE "text"]
       \/ \E e \in FetchRejections :
              calls' = [calls EXCEPT ![id] = Reject(@, "post", CloudinaryCatch(e))]
    /\ UNCHANGED <<now, urlVars, screenVars, ctxVars>>

\* await response.text() of a non-ok response settles
TextSettles(id) ==
    /\ calls[id].pc = "text"
    /\ \/ calls' = [calls EXCEPT ![id] =
                        Reject(@, "status", CloudinaryCatch(StatusError(@.response)))]
       \/ \E e \in FetchRejections :
              calls' = [calls EXCEPT ![id] = Reject(@, "text", CloudinaryCatch(e))]
    /\ UNCHANGED <<now, urlVars, screenVars, ctxVars>>

\* await response.json() of an ok response settles
JsonSettles(id) ==
    /\ calls[id].pc = "json"
    /\ \/ \E p \in Payloads :
              calls' = [calls EXCEPT ![id].payload = <<p>>,
                                     ![id].result = <<CloudinaryResult(p)>>,
                                     ![id].pc = "resolved"]
       \/ \E e \in JsonRejections \cup FetchRejections :
              calls' = [calls EXCEPT ![id] = Reject(@, "json", CloudinaryCatch(e))]
    /\ UNCHANGED <<now, urlVars, screenVars, ctxVars>>

\* ---- actions of uploadImageToFirebase

InvokeFirebase(id) ==
    /\ NextCallId(id)
    /\ \E src \in Sources :
           calls' = [calls EXCEPT ![id] = StartFirebase("direct", src.uri, src.name, now)]
    /\ UNCHANGED <<now, urlVars, screenVars, ctxVars>>

\* await fetch(imageUri) settles (both branches of the if fetch)
FirebaseFetchSettles(id) ==
    /\ calls[id].pc = "fbFetch"
    /\ \/ calls' = [calls EXCEPT ![id].pc = "fbBlob"]
       \/ \E e \in FetchRejections :
              calls' = [calls EXCEPT ![id] = Reject(@, "fbFetch", FirebaseCatch(e))]
    /\ UNCHANGED <<now, urlVars, screenVars, ctxVars>>

\* await response.blob() settles; on success uploadBytes is started
FirebaseBlobSettles(id) ==
    /\ calls[id].pc = "fbBlob"
    /\ \/ calls' = [calls EXCEPT ![id].pc = "uploadBytes"]
       \/ \E e \in FetchRejections :
              calls' = [calls EXCEPT ![id] = Reject(@, "fbBlob", FirebaseCatch(e))]
    /\ UNCHANGED <<now, urlVars, screenVars, ctxVars>>

\* await uploadBytes(imageRef, blob) settles
UploadBytesSettles(id) ==
    /\ calls[id].pc = "uploadBytes"
    /\ \/ calls' = [calls EXCEPT ![id].pc = "getDownloadURL"]
       \/ \E e \in StorageRejections :
              calls' = [calls EXCEPT ![id] = Reject(@, "uploadBytes", FirebaseCatch(e))]
    /\ UNCHANGED <<now, urlVars, screenVars, ctxVars>>

\* getDownloadURL settling with the client itself putting a record of the
\* URL in the list of the upload screen
GetDownloadURLSettles_AddsRecord(id) ==
    /\ calls[id].pc = "getDownloadURL"
    /\ \/ /\ calls' = [calls EXCEPT ![id].result = <<DownloadUrl(calls[id].imageRef)>>,
                                    ![id].pc = "resolved"]
          /\ uploadedImages' =
                 <<[id |-> NumberToString(now), url |-> DownloadUrl(calls[id].imageRef),
                    name |-> calls[id].fileName,
                    uploadedAt |-> [type |-> "Date", time |-> now]]>> \o uploadedImages
       \/ /\ \E e \in StorageRejections :
                 calls' = [calls EXCEPT ![id] = Reject(@, "getDownloadURL", FirebaseCatch(e))]
          /\ uploadedImages' = uploadedImages
    /\ UNCHANGED <<now, urlVars, uploading, dragActive, uploads, ctxVars>>

\* await getDownloadURL(snapshot.ref) settles
GetDownloadURLSettles(id) ==
    /\ calls[id].pc = "getDownloadURL"
    /\ \/ calls' = [calls EXCEPT ![id].result = <<DownloadUrl(calls[id].imageRef)>>,
                                 ![id].pc = "resolved"]
       \/ \E e \in StorageRejections :
              calls' = [calls EXCEPT ![id] = Reject(@, "getDownloadURL", FirebaseCatch(e))]
    /\ UNCHANGED <<now, urlVars, screenVars, ctxVars>>

CloudinaryStep(id) ==
    \/ DataFetchSettles(id)
    \/ BlobSettles(id)
    \/ PostSettles(id)
    \/ TextSettles(id)
    \/ JsonSettles(id)

FirebaseStep(id) ==
    \/ FirebaseFetchSettles(id)
    \/ FirebaseBlobSettles(id)
    \/ UploadBytesSettles(id)
    \/ GetDownloadURLSettles(id)

(***************************************************************************)
(* services/firebase.ts of the Firebase guide: uploadImage(file, fileName, *)
(* onProgress?), with the resumable upload task of the storage SDK         *)
(***************************************************************************)
\* Blob.size of the file handed to uploadImage
FileSizes == 0..MaxBytes

\* a JavaScript number: NaN, or the quotient num / den
NaN == [nan |-> TRUE, num |-> 0, den |-> 1]
Quotient(n, d) == [nan |-> FALSE, num |-> n, den |-> d]

\* (snapshot.bytesTransferred / snapshot.totalBytes) * 100, where 0 / 0 is NaN
\* and a positive number over 0 is Infinity
ProgressOf(bytesTransferred, totalBytes) ==
    IF totalBytes = 0
    THEN (IF bytesTransferred = 0 THEN NaN ELSE Quotient(1, 0))
    ELSE Quotient(bytesTransferred * 100, totalBytes)

\* the UploadTask returned by uploadBytesResumable(storageRef, file)
NewTask(size) == [state |-> "running", bytesTransferred |-> 0, totalBytes |-> size]

\* ref(storage, `images/${fileName}`)
GuideRef(name) == ImagesFolder \o name

\* the synchronous start of uploadImage: with onProgress the task is created
\* and observed, without it uploadBytes is awaited
StartUploadImage(name, size, withProgress) ==
    [IdleCall EXCEPT !.fn = "uploadImage", !.caller = "direct",
                     !.fileName = name, !.imageRef = GuideRef(name),
                     !.task = IF withProgress THEN <<NewTask(size)>> ELSE <<>>,
                     !.pc = IF withProgress THEN "task" ELSE "plainUploadBytes"]

CallUploadImage(id, size, withProgress) ==
    /\ NextCallId(id)
    /\ calls' = [calls EXCEPT ![id] = StartUploadImage(Name_drop_png, size, withProgress)]
    /\ UNCHANGED <<now, urlVars, screenVars, ctxVars>>

\* the task emits 'state_changed' while it runs: the observer computes the
\* percentage and hands it to onProgress
StateChanged(id, bytes) ==
    /\ calls[id].pc = "task"
    /\ calls[id].task[1].state = "running"
    /\ Len(calls[id].progress) <= MaxBytes
    /\ bytes >= calls[id].task[1].bytesTransferred
    /\ bytes <= calls[id].task[1].totalBytes
    /\ calls' = [calls EXCEPT
                     ![id].task = <<[@[1] EXCEPT !.bytesTransferred = bytes]>>,
                     ![id].progress =
                         Append(@, [value |-> ProgressOf(bytes, calls[id].task[1].totalBytes),
                                    settled |-> Settled(calls[id])])]
    /\ UNCHANGED <<now, urlVars, screenVars, ctxVars>>

\* the task ends in error: the error observer is reject itself
TaskFails(id) ==
    /\ calls[id].pc = "task"
    /\ calls[id].task[1].state = "running"
    /\ calls' = [calls EXCEPT
                     ![id] = Reject([@ EXCEPT !.task = <<[@[1] EXCEPT !.state = "error"]>>],
                                    "task", StorageError)]
    /\ UNCHANGED <<now, urlVars, screenVars, ctxVars>>

\* the task completes: the completion observer awaits getDownloadURL
TaskCompletes(id) ==
    /\ calls[id].pc = "task"
    /\ calls[id].task[1].state = "running"
    /\ calls' = [calls EXCEPT
                     ![id].task = <<[@[1] EXCEPT !.state = "success",
                                                !.bytesTransferred =
                                                    calls[id].task[1].totalBytes]>>,
                     ![id].pc = "completionUrl"]
    /\ UNCHANGED <<now, urlVars, screenVars, ctxVars>>

\* getDownloadURL of the completion observer settles: resolve(downloadURL),
\* or the observer's own promise rejects and the upload promise stays pending
CompletionUrlSettles(id) ==
    /\ calls[id].pc = "completionUrl"
    /\ \/ calls' = [calls EXCEPT ![id].result = <<DownloadUrl(calls[id].imageRef)>>,
                                 ![id].pc = "resolved"]
       \/ calls' = [calls EXCEPT ![id].failure = "completionUrl",
                                 ![id].pc = "pending"]
    /\ UNCHANGED <<now, urlVars, screenVars, ctxVars>>

\* await uploadBytes(storageRef, file) of the branch without onProgress
PlainUploadBytesSettles(id) ==
    /\ calls[id].pc = "plainUploadBytes"
    /\ \/ calls' = [calls EXCEPT ![id].pc = "plainDownloadUrl"]
       \/ \E e \in StorageRejections :
              calls' = [calls EXCEPT ![id] = Reject(@, "plainUploadBytes", e)]
    /\ UNCHANGED <<now, urlVars, screenVars, ctxVars>>

\* return getDownloadURL(storageRef) of the branch without onProgress
PlainDownloadUrlSettles(id) ==
    /\ calls[id].pc = "plainDownloadUrl"
    /\ \/ calls' = [calls EXCEPT ![id].result = <<DownloadUrl(calls[id].imageRef)>>,
                                 ![id].pc = "resolved"]
       \/ \E e \in StorageRejections :
              calls' = [calls EXCEPT ![id] = Reject(@, "plainDownloadUrl", e)]
    /\ UNCHANGED <<now, urlVars, screenVars, ctxVars>>

UploadImageStep(id) ==
    \/ \E bytes \in FileSizes : StateChanged(id, bytes)
    \/ TaskFails(id)
    \/ TaskCompletes(id)
    \/ CompletionUrlSettles(id)
    \/ PlainUploadBytesSettles(id)
    \/ PlainDownloadUrlSettles(id)

\* the URL functions are not part of the run
UrlIdle ==
    /\ publicId = Id_abc123
    /\ options = NoOptions
    /\ url = <<>>
    /\ extracted = <<>>
    /\ urlPc = "unused"

\* no upload client call has been made
ClientIdle ==
    /\ calls = [id \in CallIds |-> IdleCall]
    /\ now = 1

(***************************************************************************)
(* app/(tabs)/index.tsx: ImageUploadScreen                                 *)
(***************************************************************************)
\* Date.now().toString()
TimeId(t) == NumberToString(t)

\* new Date()
DateOf(t) == [type |-> "Date", time |-> t]

\* the UploadedImage built by handleImageUpload
NewUploadedImage(downloadURL, fileName, t) ==
    [id |-> TimeId(t), url |-> downloadURL, name |-> fileName, uploadedAt |-> DateOf(t)]

\* prev.filter(img => img.id !== id)
RECURSIVE FilterOutId(_, _)
FilterOutId(list, id) ==
    IF Len(list) = 0 THEN <<>>
    ELSE (IF list[1].id # id THEN <<list[1]>> ELSE <<>>) \o FilterOutId(Tail(list), id)

\* setUploadedImages(prev => [...prev, newImage])
Prepend_AtTail(newImage, prev) == prev \o <<newImage>>

\* an update that stamps the records already listed with the new time
Prepend_Restamping(newImage, prev) ==
    <<newImage>> \o [i \in 1..Len(prev) |-> [prev[i] EXCEPT !.uploadedAt = newImage.uploadedAt]]

\* setUploadedImages([newImage]) over a list read before the await
Prepend_DroppingEarlier(newImage, prev) == <<newImage>>

\* setUploadedImages(prev => [newImage, ...prev])
Prepend(newImage, prev) == <<newImage>> \o prev

IdleUpload == [stage |-> "none", alert |-> "none"]

\* the state of the screen when it is mounted
ScreenMounted ==
    /\ uploadedImages = <<>>
    /\ uploading = FALSE
    /\ dragActive = FALSE
    /\ uploads = [id \in CallIds |-> IdleUpload]

\* the screen is mounted and nothing is done on it
ScreenIdle == ScreenMounted

\* the start of handleImageUpload(uri, fileName): setUploading(true) and the
\* call of uploadImageToFirebase up to its first await
handleImageUpload(id, uri, fileName) ==
    /\ uploading' = TRUE
    /\ calls' = [calls EXCEPT ![id] = StartFirebase("screen", uri, fileName, now)]
    /\ uploads' = [uploads EXCEPT ![id].stage = "awaiting"]

\* upload slots are used in index order
NextUploadId(id) ==
    /\ uploads[id].stage = "none"
    /\ calls[id].pc = "idle"
    /\ \A j \in 1..(id - 1) : uploads[j].stage # "none"

\* the two controls whose onPress is pickImage
PickButtons == {"uploadZone", "chooseFromLibrary"}

\* a press of the upload zone (disabled while uploading) or of the quick
\* action 'Choose from Library': pickImage opens the image library
PressPickImage(id, button) ==
    /\ NextUploadId(id)
    /\ button = "uploadZone" => ~uploading
    /\ uploads' = [uploads EXCEPT ![id].stage = "picking"]
    /\ UNCHANGED <<uploadedImages, uploading, dragActive, clientVars, urlVars, ctxVars>>

\* launchImageLibraryAsync resolves with an asset: pickImage goes on to
\* handleImageUpload(asset.uri, fileName)
PickerReturnsAsset(id) ==
    /\ uploads[id].stage = "picking"
    /\ handleImageUpload(id, FileUri, Name_photo_jpg)
    /\ UNCHANGED <<uploadedImages, dragActive, now, urlVars, ctxVars>>

\* launchImageLibraryAsync resolves canceled, or rejects: nothing is uploaded
PickerReturnsNothing(id) ==
    /\ uploads[id].stage = "picking"
    /\ uploads' = [uploads EXCEPT ![id].stage = "none"]
    /\ UNCHANGED <<uploadedImages, uploading, dragActive, clientVars, urlVars, ctxVars>>

\* the drag handlers are attached to the upload zone on the web platform
\* only, where Platform.OS === 'web' holds inside them
handleDragOver ==
    /\ dragActive' = TRUE
    /\ UNCHANGED <<uploadedImages, uploading, uploads, clientVars, urlVars, ctxVars>>

handleDragLeave ==
    /\ dragActive' = FALSE
    /\ UNCHANGED <<uploadedImages, uploading, uploads, clientVars, urlVars, ctxVars>>

\* the MIME types of the first dropped file
DroppedTypes == {"image/png", "text/plain"}

\* file.type.startsWith('image/')
IsImageType(type) == type = "image/png"

\* handleDrop reading the first file whatever its type
handleDropFile_AnyType(id, type) ==
    /\ NextUploadId(id)
    /\ dragActive' = FALSE
    /\ uploads' = [uploads EXCEPT ![id].stage = "reading"]
    /\ UNCHANGED <<uploadedImages, uploading, clientVars, urlVars, ctxVars>>

\* handleDrop with a first file of the given type: an image is handed to a
\* FileReader, anything else is answered with an alert
handleDropFile(id, type) ==
    /\ NextUploadId(id)
    /\ dragActive' = FALSE
    /\ uploads' = IF IsImageType(type)
                  THEN [uploads EXCEPT ![id].stage = "reading"]
                  ELSE uploads
    /\ UNCHANGED <<uploadedImages, uploading, clientVars, urlVars, ctxVars>>

\* handleDrop with an empty file list
handleDropNothing ==
    /\ dragActive' = FALSE
    /\ UNCHANGED <<uploadedImages, uploading, uploads, clientVars, urlVars, ctxVars>>

\* reader.onload: handleImageUpload(dataUrl, file.name)
ReaderLoads(id) ==
    /\ uploads[id].stage = "reading"
    /\ handleImageUpload(id, DataUri, Name_drop_png)
    /\ UNCHANGED <<uploadedImages, dragActive, now, urlVars, ctxVars>>

\* handleImageUpload after uploadImageToFirebase has resolved: the record is
\* built and prepended, the success alert shown, finally setUploading(false)
UploadResolved(id) ==
    /\ uploads[id].stage = "awaiting"
    /\ calls[id].pc = "resolved"
    /\ uploadedImages' =
           Prepend(NewUploadedImage(calls[id].result[1], calls[id].fileName, now),
                   uploadedImages)
    /\ uploads' = [uploads EXCEPT ![id] = [stage |-> "done", alert |-> "Success"]]
    /\ uploading' = FALSE
    /\ calls' = [calls EXCEPT ![id] = ReleasedCall]
    /\ UNCHANGED <<dragActive, now, urlVars, ctxVars>>

\* handleImageUpload without catch and finally: the rejection goes on to the
\* caller and uploading stays set
UploadRejected_NoFinally(id) ==
    /\ uploads[id].stage = "awaiting"
    /\ calls[id].pc = "rejected"
    /\ uploads' = [uploads EXCEPT ![id] = [stage |-> "threw", alert |-> "none"]]
    /\ uploading' = uploading
    /\ calls' = [calls EXCEPT ![id] = ReleasedCall]
    /\ UNCHANGED <<uploadedImages, dragActive, now, urlVars, ctxVars>>

\* handleImageUpload after uploadImageToFirebase has rejected: the catch
\* block shows the error alert, finally setUploading(false)
UploadRejected(id) ==
    /\ uploads[id].stage = "awaiting"
    /\ calls[id].pc = "rejected"
    /\ uploads' = [uploads EXCEPT ![id] = [stage |-> "done", alert |-> "Error"]]
    /\ uploading' = FALSE
    /\ calls' = [calls EXCEPT ![id] = ReleasedCall]
    /\ UNCHANGED <<uploadedImages, dragActive, now, urlVars, ctxVars>>

\* a removeImage that also aborts the uploads in flight
removeImage_Cancelling(i) ==
    /\ i \in 1..Len(uploadedImages)
    /\ uploadedImages' = FilterOutId(uploadedImages, uploadedImages[i].id)
    /\ uploads' = [id \in CallIds |->
                       IF uploads[id].stage = "awaiting"
                       THEN [stage |-> "done", alert |-> "none"]
                       ELSE uploads[id]]
    /\ calls' = [id \in CallIds |->
                     IF uploads[id].stage = "awaiting" THEN ReleasedCall ELSE calls[id]]
    /\ UNCHANGED <<uploading, dragActive, now, urlVars, ctxVars>>

\* a press of the remove button of the i-th card: removeImage(image.id)
removeImage(i) ==
    /\ i \in 1..Len(uploadedImages)
    /\ uploadedImages' = FilterOutId(uploadedImages, uploadedImages[i].id)
    /\ UNCHANGED <<uploading, dragActive, uploads, clientVars, urlVars, ctxVars>>

(***************************************************************************)
(* contexts/ImageContext.tsx (listed in the technical guide)               *)
(***************************************************************************)
\* JSON.parse(JSON.stringify(record)): a Date comes back as a string
JsonRecord(r) == [r EXCEPT !.uploadedAt = [type |-> "string", time |-> r.uploadedAt.time]]

\* JSON.parse(JSON.stringify(list))
JsonList(list) == [i \in 1..Len(list) |-> JsonRecord(list[i])]

\* the ImageData built by addImage
NewImageData(imageUrl, fileName, t) ==
    [id |-> TimeId(t), url |-> imageUrl, fileName |-> fileName, uploadedAt |-> DateOf(t)]

\* [newImage, ...images] in place of [...images, newImage]
AppendImage_AtHead(list, newImage) == <<newImage>> \o list

\* [...images, newImage]
AppendImage(list, newImage) == list \o <<newImage>>

\* the AsyncStorage entry: missing, a string that is no JSON, or the JSON of a list
NoEntry == <<>>
GarbageEntry == <<[json |-> FALSE, list |-> <<>>]>>
ListEntry(list) == <<[json |-> TRUE, list |-> JsonList(list)]>>

\* a record written by an earlier run of the app
EarlierImage ==
    NewImageData(HostedUrl("firebasestorage.googleapis.com",
                           <<"i", "m", "a", "g", "e", "s", "/", "0", "_", "a", ".", "p", "n", "g">>),
                 <<"a", ".", "p", "n", "g">>, 0)

\* what an earlier run can have left in storage
StoredEntries == {NoEntry, GarbageEntry, ListEntry(<<EarlierImage>>)}

\* the URLs handed to addImage
AddedUrls == {HostedUrl("firebasestorage.googleapis.com", ImageRef(Name_photo_jpg, 1))}

IdleOp == [kind |-> "none", pc |-> "idle", payload |-> <<>>]

\* the provider is not mounted
ContextIdle ==
    /\ ctxPc = "unmounted"
    /\ images = <<>>
    /\ loading = TRUE
    /\ closureImages = <<>>
    /\ stored = NoEntry
    /\ ctxOps = [k \in CallIds |-> IdleOp]

NextOpId(k) == ctxOps[k].pc = "idle" /\ \A j \in 1..(k - 1) : ctxOps[j].pc # "idle"

\* the provider mounts over whatever an earlier run left in storage; its
\* effect calls loadImages, which awaits AsyncStorage.getItem
MountImageContext ==
    /\ ctxPc = "unmounted"
    /\ ctxPc' = "loading"
    /\ stored' \in StoredEntries
    /\ UNCHANGED <<images, loading, closureImages, ctxOps, clientVars, screenVars, urlVars>>

\* loadImages without its try / catch / finally: a rejection of getItem or a
\* parse error ends the call, and loading stays as it was
loadImages_NoCatch ==
    /\ ctxPc = "loading"
    /\ \/ /\ stored # NoEntry /\ stored[1].json
          /\ images' = stored[1].list
          /\ ctxPc' = "loaded"
          /\ loading' = FALSE
       \/ /\ stored = NoEntry
          /\ images' = images
          /\ ctxPc' = "loaded"
          /\ loading' = FALSE
       \/ /\ images' = images
          /\ ctxPc' = "loadRejected"
          /\ loading' = loading
    /\ UNCHANGED <<closureImages, stored, ctxOps, clientVars, screenVars, urlVars>>

\* loadImages after getItem has settled: a list is parsed and set, a missing
\* entry is skipped, a rejection or a parse error is caught and logged;
\* finally setLoading(false)
loadImages ==
    /\ ctxPc = "loading"
    /\ ctxPc' = "loaded"
    /\ \/ images' = IF stored # NoEntry /\ stored[1].json
                     THEN stored[1].list
                     ELSE images
       \/ images' = images
    /\ loading' = FALSE
    /\ UNCHANGED <<closureImages, stored, ctxOps, clientVars, screenVars, urlVars>>

\* the provider renders again: addImage and removeImage now close over the
\* current images
RenderImageContext ==
    /\ ctxPc # "unmounted"
    /\ closureImages # images
    /\ closureImages' = images
    /\ UNCHANGED <<ctxPc, images, loading, stored, ctxOps, clientVars, screenVars, urlVars>>

\* addImage building its list with a functional update of the current state
\* in place of the images it closed over
addImage_FromCurrent(k) ==
    /\ ctxPc # "unmounted"
    /\ NextOpId(k)
    /\ \E imageUrl \in AddedUrls :
           LET updatedImages ==
                   AppendImage(images, NewImageData(imageUrl, Name_photo_jpg, now))
           IN  /\ images' = updatedImages
               /\ ctxOps' = [ctxOps EXCEPT ![k] =
                                 [kind |-> "add", pc |-> "writing",
                                  payload |-> ListEntry(updatedImages)]]
    /\ UNCHANGED <<ctxPc, loading, closureImages, stored, clientVars, screenVars, urlVars>>

\* addImage(url, fileName) up to its await of AsyncStorage.setItem
addImage(k) ==
    /\ ctxPc # "unmounted"
    /\ NextOpId(k)
    /\ \E imageUrl \in AddedUrls :
           LET updatedImages ==
                   AppendImage(closureImages, NewImageData(imageUrl, Name_photo_jpg, now))
           IN  /\ images' = updatedImages
               /\ ctxOps' = [ctxOps EXCEPT ![k] =
                                 [kind |-> "add", pc |-> "writing",
                                  payload |-> ListEntry(updatedImages)]]
    /\ UNCHANGED <<ctxPc, loading, closureImages, stored, clientVars, screenVars, urlVars>>

\* removeImage(id) of the context, for the i-th rendered image, up to its
\* await of AsyncStorage.setItem
contextRemoveImage(k, i) ==
    /\ ctxPc # "unmounted"
    /\ NextOpId(k)
    /\ i \in 1..Len(closureImages)
    /\ LET updatedImages == FilterOutId(closureImages, closureImages[i].id)
       IN  /\ images' = updatedImages
           /\ ctxOps' = [ctxOps EXCEPT ![k] =
                             [kind |-> "remove", pc |-> "writing",
                              payload |-> ListEntry(updatedImages)]]
    /\ UNCHANGED <<ctxPc, loading, closureImages, stored, clientVars, screenVars, urlVars>>

\* AsyncStorage.setItem of addImage / removeImage settles: the entry is
\* written, or the promise rejects and with it the call
SetItemSettles(k) ==
    /\ ctxOps[k].pc = "writing"
    /\ \/ /\ stored' = ctxOps[k].payload
          /\ ctxOps' = [ctxOps EXCEPT ![k].pc = "resolved"]
       \/ /\ stored' = stored
          /\ ctxOps' = [ctxOps EXCEPT ![k].pc = "rejected"]
    /\ UNCHANGED <<ctxPc, images, loading, closureImages, clientVars, screenVars, urlVars>>

(***************************************************************************)
(* Specification Spec: the upload screen with its uploads in flight        *)
(***************************************************************************)
Init ==
    /\ UrlIdle
    /\ ClientIdle
    /\ ScreenMounted
    /\ ContextIdle

Next ==
    \/ Tick
    \/ \E id \in CallIds, button \in PickButtons : PressPickImage(id, button)
    \/ \E id \in CallIds : PickerReturnsAsset(id)
    \/ \E id \in CallIds : PickerReturnsNothing(id)
    \/ handleDragOver
    \/ handleDragLeave
    \/ \E id \in CallIds, type \in DroppedTypes : handleDropFile(id, type)
    \/ handleDropNothing
    \/ \E id \in CallIds : ReaderLoads(id)
    \/ \E id \in CallIds : FirebaseStep(id)
    \/ \E id \in CallIds : UploadResolved(id)
    \/ \E id \in CallIds : UploadRejected(id)
    \/ \E i \in 1..MaxCalls : removeImage(i)

Spec == Init /\ [][Next]_vars

(***************************************************************************)
(* Specification SpecContext: the ImageContext provider on its own         *)
(***************************************************************************)
InitContext == UrlIdle /\ ClientIdle /\ ScreenIdle /\ ContextIdle

NextContext ==
    \/ Tick
    \/ MountImageContext
    \/ loadImages
    \/ RenderImageContext
    \/ \E k \in CallIds : addImage(k)
    \/ \E k \in CallIds, i \in 1..(MaxCalls + 1) : contextRemoveImage(k, i)
    \/ \E k \in CallIds : SetItemSettles(k)

SpecContext == InitContext /\ [][NextContext]_vars

\* the promise of AsyncStorage.getItem settles, and loadImages then runs on
SpecContextLive == SpecContext /\ WF_vars(loadImages)

(***************************************************************************)
(* Specification SpecRegistries: the upload screen and the ImageContext    *)
(* provider in one app; a run starts at most MaxCalls operations (uploads, *)
(* the mount of the provider, adds and removes of the context) in all      *)
(***************************************************************************)
OpsStarted ==
    Cardinality({id \in CallIds : uploads[id].stage # "none"})
    + Cardinality({k \in CallIds : ctxOps[k].pc # "idle"})
    + (IF ctxPc = "unmounted" THEN 0 ELSE 1)

StartOfOperation ==
    \/ \E id \in CallIds, button \in PickButtons : PressPickImage(id, button)
    \/ \E id \in CallIds, type \in DroppedTypes : handleDropFile(id, type)
    \/ MountImageContext
    \/ \E k \in CallIds : addImage(k)
    \/ \E k \in CallIds, i \in 1..(MaxCalls + 1) : contextRemoveImage(k, i)

RestOfOperation ==
    \/ Tick
    \/ \E id \in CallIds : PickerReturnsAsset(id)
    \/ \E id \in CallIds : PickerReturnsNothing(id)
    \/ handleDragOver
    \/ handleDragLeave
    \/ handleDropNothing
    \/ \E id \in CallIds : ReaderLoads(id)
    \/ \E id \in CallIds : FirebaseStep(id)
    \/ \E id \in CallIds : UploadResolved(id)
    \/ \E id \in CallIds : UploadRejected(id)
    \/ \E i \in 1..MaxCalls : removeImage(i)
    \/ loadImages
    \/ RenderImageContext
    \/ \E k \in CallIds : SetItemSettles(k)

NextRegistries ==
    \/ OpsStarted < MaxCalls /\ StartOfOperation
    \/ RestOfOperation

SpecRegistries == Init /\ [][NextRegistries]_vars

(***************************************************************************)
(* Specification SpecClient: the upload clients called directly            *)
(***************************************************************************)
InitClient == UrlIdle /\ ClientIdle /\ ScreenIdle /\ ContextIdle

NextClient ==
    \/ Tick
    \/ \E id \in CallIds : InvokeCloudinary(id)
    \/ \E id \in CallIds : InvokeFirebase(id)
    \/ \E id \in CallIds : CloudinaryStep(id)
    \/ \E id \in CallIds : FirebaseStep(id)

SpecClient == InitClient /\ [][NextClient]_vars

(***************************************************************************)
(* Specification SpecResumable: uploadImage of the Firebase guide, called  *)
(* with and without a progress callback                                    *)
(***************************************************************************)
NextResumable ==
    \/ \E id \in CallIds, size \in FileSizes, withProgress \in BOOLEAN :
           CallUploadImage(id, size, withProgress)
    \/ \E id \in CallIds : UploadImageStep(id)

SpecResumable == InitClient /\ [][NextResumable]_vars

(***************************************************************************)
(* Specification SpecCloudinary: uploadImageToCloudinary called directly   *)
(* with every kind of source                                               *)
(***************************************************************************)
NextCloudinary ==
    \/ Tick
    \/ \E id \in CallIds, src \in CloudinarySources : CallCloudinary(id, src)
    \/ \E id \in CallIds : CloudinaryStep(id)

SpecCloudinary == InitClient /\ [][NextCloudinary]_vars

(***************************************************************************)
(* Claims about the image registries                                       *)
(***************************************************************************)
\* C5: an add of the upload screen followed by remove(id) of the record it
\* just created gives back the registry as it was before the add: whenever
\* handleImageUpload inserts a record, filtering the new registry by the id of
\* that record yields the old registry, same records in the same order.
C5_AddThenRemoveRestores ==
    [][\A id \in CallIds :
           UploadResolved(id) =>
               FilterOutId(uploadedImages', TimeId(now)) = uploadedImages]_vars

\* a step of the upload screen that inserts a record
ScreenAdds == \E id \in CallIds : UploadResolved(id)

\* a step of the ImageContext that inserts a record
ContextAdds == \E k \in CallIds : addImage(k)

\* the upload screen puts the new record in front of the records it had
ScreenAddsAtHead ==
    ScreenAdds =>
        /\ Len(uploadedImages') = Len(uploadedImages) + 1
        /\ uploadedImages'[1].id = TimeId(now)
        /\ Tail(uploadedImages') = uploadedImages

\* C6 as stated: every add places the new record at the head of the list, in
\* the upload screen's registry and in the ImageContext registry alike.
C6_EveryAddAtHead ==
    [][/\ ScreenAddsAtHead
       /\ ContextAdds =>
              /\ images'[1].id = TimeId(now)
              /\ Tail(images') = closureImages]_vars

\* C6 amended: the upload screen's registry is most-recently-added first,
\* every add of the screen places the new record at the head; every add of the
\* ImageContext registry places the new record at the end, after the records
\* the provider rendered last.
C6_ScreenAtHeadContextAtTail ==
    [][/\ ScreenAddsAtHead
       /\ ContextAdds =>
              /\ images'[Len(images')].id = TimeId(now)
              /\ SubSeq(images', 1, Len(images') - 1) = closureImages]_vars

\* the ImageContext has added a record to a list that held the record of an
\* earlier run: the new record is the second of two
C6_Witness ==
    /\ Len(images) = 2
    /\ images[1].id = EarlierImage.id
    /\ images[2].id # EarlierImage.id
    /\ \E k \in CallIds : ctxOps[k].kind = "add"

\* C7: no two records of the upload screen's registry share an id.
C7_UniqueIds ==
    \A i, j \in 1..Len(uploadedImages) :
        i # j => uploadedImages[i].id # uploadedImages[j].id

\* the positions of an upload client call between its start and its end
InFlight ==
    {"dataFetch", "blob", "post", "text", "json",
     "fbFetch", "fbBlob", "uploadBytes", "getDownloadURL"}

\* the call is the same invocation, at the same or a later position
SameInvocation(c, d) ==
    /\ d.fn = c.fn
    /\ d.imageUri = c.imageUri
    /\ d.fileName = c.fileName
    /\ d.imageRef = c.imageRef
    /\ d.pc \in InFlight \cup {"resolved", "rejected"}

\* C18: no step aborts an upload the screen has started: while the screen
\* awaits it, whatever else happens (a removal, drag events, another upload),
\* the upload stays awaited and its call stays the same invocation, until
\* the call has resolved or rejected and the completion handler runs with
\* the matching alert.
C18_NoCancellation ==
    [][\A id \in CallIds :
          uploads[id].stage = "awaiting" =>
              \/ /\ uploads'[id] = uploads[id]
                 /\ SameInvocation(calls[id], calls'[id])
                 /\ Settled(calls[id]) => calls'[id] = calls[id]
              \/ /\ Settled(calls[id])
                 /\ uploads'[id].stage = "done"
                 /\ uploads'[id].alert =
                        IF calls[id].pc = "resolved" THEN "Success" ELSE "Error"]_vars

\* an upload has resolved and waits for its handler while the record of an
\* earlier upload has been removed and a drag is under way
C18_Witness ==
    \E id, j \in CallIds :
        /\ uploads[j] = [stage |-> "done", alert |-> "Success"]
        /\ uploadedImages = <<>>
        /\ dragActive
        /\ uploads[id].stage = "awaiting"
        /\ calls[id].pc = "resolved"

\* C19: a step of an upload client call (its start included) leaves the
\* registries as they are; the list of the upload screen grows only by the
\* caller's handler, after the call has resolved, by one record at the head
\* that carries the URL the call returned.
C19_ClientLeavesRegistryAlone ==
    [][/\ (\E id \in CallIds :
              /\ ~Settled(calls[id])
              /\ calls'[id] # calls[id]) =>
              /\ uploadedImages' = uploadedImages
              /\ images' = images
              /\ stored' = stored
       /\ Len(uploadedImages') > Len(uploadedImages) =>
              \E id \in CallIds :
                  /\ uploads[id].stage = "awaiting"
                  /\ calls[id].pc = "resolved"
                  /\ uploadedImages' =
                         <<uploadedImages'[1]>> \o uploadedImages
                  /\ uploadedImages'[1].url = calls[id].result[1]]_vars

\* a record is in the list while another call is still writing to storage
C19_Witness ==
    \E id \in CallIds :
        /\ Len(uploadedImages) = 1
        /\ calls[id].pc = "getDownloadURL"
        /\ uploads[id].stage = "awaiting"

\* a is b with some elements left out
RECURSIVE IsSubsequence(_, _)
IsSubsequence(a, b) ==
    IF Len(a) = 0 THEN TRUE
    ELSE IF Len(b) = 0 THEN FALSE
    ELSE IF a[1] = b[1] THEN IsSubsequence(Tail(a), Tail(b))
    ELSE IsSubsequence(a, Tail(b))

\* the completion handler of upload id runs in this step
HandlerRuns(id) == uploads[id].stage = "awaiting" /\ uploads'[id].stage # "awaiting"

\* C23: no step changes a record of the upload screen's list: the list
\* stays as it is, or the handler of an upload that resolved puts one new
\* record before the unchanged earlier ones, or a removal leaves a
\* subsequence of the unchanged records; the handler of an upload that
\* rejected inserts nothing.
C23_RecordsNeverMutated ==
    [][/\ \/ uploadedImages' = uploadedImages
          \/ \E id \in CallIds :
                 /\ HandlerRuns(id)
                 /\ calls[id].pc = "resolved"
                 /\ Len(uploadedImages') = Len(uploadedImages) + 1
                 /\ Tail(uploadedImages') = uploadedImages
                 /\ uploadedImages'[1].url = calls[id].result[1]
                 /\ uploadedImages'[1].name = calls[id].fileName
          \/ /\ uploads' = uploads
             /\ Len(uploadedImages') < Len(uploadedImages)
             /\ IsSubsequence(uploadedImages', uploadedImages)
       /\ \A id \in CallIds :
              (HandlerRuns(id) /\ calls[id].pc = "rejected") =>
                  uploadedImages' = uploadedImages]_vars

\* one upload has failed and one has succeeded, and the list holds the one
\* record of the success
C23_Witness ==
    \E i, j \in CallIds :
        /\ uploads[i] = [stage |-> "done", alert |-> "Error"]
        /\ uploads[j] = [stage |-> "done", alert |-> "Success"]
        /\ Len(uploadedImages) = 1

\* uploads whose handler has shown the success alert
Succeeded == {id \in CallIds : uploads[id].alert = "Success"}

\* C27: no update of the upload screen's list is lost: the handler of every
\* upload that resolved lengthens the list by exactly one record, whatever
\* was added or removed since the upload started; a removal shortens it by
\* the records that carry the removed id; nothing else changes its length;
\* so the list never holds more records than uploads have succeeded.
C27_NoLostUpdate ==
    /\ [](Len(uploadedImages) <= Cardinality(Succeeded))
    /\ [][IF \E id \in CallIds : HandlerRuns(id) /\ calls[id].pc = "resolved"
          THEN Len(uploadedImages') = Len(uploadedImages) + 1
          ELSE \/ Len(uploadedImages') = Len(uploadedImages)
               \/ \E i \in 1..Len(uploadedImages) :
                      Len(uploadedImages') =
                          Len(uploadedImages)
                          - Cardinality({k \in 1..Len(uploadedImages) :
                                            uploadedImages[k].id = uploadedImages[i].id})]_vars

\* two uploads have succeeded, the one started first completing last, no
\* upload is in flight and both records are listed
C27_Witness ==
    /\ \A id \in CallIds : uploads[id].stage \in {"none", "done"}
    /\ Cardinality(Succeeded) = 2
    /\ Len(uploadedImages) = 2
    /\ \E t1, t2 \in 1..MaxClock :
           /\ t1 < t2
           /\ uploadedImages[1].url.path = ImageRef(uploadedImages[1].name, t1)
           /\ uploadedImages[2].url.path = ImageRef(uploadedImages[2].name, t2)

\* C28: when the handler of an upload runs it ends (it does not rethrow) and
\* sets uploading to false; after a rejection it leaves the list unchanged
\* and shows the error alert, after a success it shows the success alert.
C28_FailureHandled ==
    [][\A id \in CallIds :
          HandlerRuns(id) =>
              /\ uploads'[id].stage = "done"
              /\ uploading' = FALSE
              /\ IF calls[id].pc = "rejected"
                 THEN /\ uploadedImages' = uploadedImages
                      /\ uploads'[id].alert = "Error"
                 ELSE /\ calls[id].pc = "resolved"
                      /\ uploads'[id].alert = "Success"]_vars

\* an upload has failed: the error alert is up, nothing is listed and
\* uploading is false again
C28_Witness ==
    \E id \in CallIds :
        /\ uploads[id] = [stage |-> "done", alert |-> "Error"]
        /\ uploadedImages = <<>>
        /\ ~uploading
        /\ \A j \in CallIds : uploads[j].stage \in {"none", "done"}

\* C29: a drop reads at most one file, the first, and only when its type is
\* an image type; a drop of another file, or of nothing, starts nothing; no
\* drop changes the list, uploading or any call; a file that was read starts
\* exactly one upload; every drop and every drag-leave sets dragActive to
\* false.
C29_DropHandling ==
    [][/\ \A id \in CallIds, type \in DroppedTypes :
              handleDropFile(id, type) =>
                  /\ ~dragActive'
                  /\ uploadedImages' = uploadedImages
                  /\ uploading' = uploading
                  /\ calls' = calls
                  /\ \A j \in CallIds \ {id} : uploads'[j] = uploads[j]
                  /\ IF IsImageType(type)
                     THEN uploads'[id].stage = "reading"
                     ELSE uploads' = uploads
       /\ (handleDropNothing \/ handleDragLeave) =>
              /\ ~dragActive'
              /\ UNCHANGED <<uploadedImages, uploading, uploads, calls>>
       /\ \A id \in CallIds :
              (uploads[id].stage = "reading" /\ uploads'[id].stage # "reading") =>
                  /\ uploads'[id].stage = "awaiting"
                  /\ calls'[id].pc = "fbFetch"
                  /\ calls'[id].imageUri = DataUri
                  /\ \A j \in CallIds \ {id} : calls'[j] = calls[j]]_vars

\* a dropped image is being read while an earlier dropped image uploads, and
\* no drag is shown
C29_Witness ==
    \E i, j \in CallIds :
        /\ uploads[i].stage = "awaiting" /\ calls[i].imageUri = DataUri
        /\ uploads[j].stage = "reading"
        /\ ~dragActive

\* C26: uploading is true exactly while an upload started by
\* handleImageUpload is in flight.
C26_UploadingWhileInFlight ==
    uploading <=> \E id \in CallIds : uploads[id].stage = "awaiting"

(***************************************************************************)
(* Claims about the ImageContext provider                                  *)
(***************************************************************************)
\* the persisted entry is the JSON of a list
StoredIsList == stored # NoEntry /\ stored[1].json

\* C15: loadImages never raises: it always ends as loaded with loading set to
\* false; when the persisted entry is missing, cannot be read or cannot be
\* parsed it leaves the registry as it is, which is the empty list unless an
\* add ran before; and once started, loading is eventually false.
C15_LoadNeverRaises ==
    /\ [][(ctxPc = "loading" /\ ctxPc' # "loading") =>
              /\ ctxPc' = "loaded"
              /\ loading' = FALSE
              /\ images' = images \/ (StoredIsList /\ images' = stored[1].list)
              /\ ~StoredIsList => images' = images
              /\ (~StoredIsList /\ \A k \in CallIds : ctxOps[k].pc = "idle") =>
                     images' = <<>>]_vars
    /\ (ctxPc = "loading") ~> (loading = FALSE)

\* loadImages has ended over an entry that is no JSON, with the empty list
C15_Witness ==
    /\ ctxPc = "loaded"
    /\ stored = GarbageEntry
    /\ images = <<>>
    /\ loading = FALSE

\* C16: a failing write of the list to local storage is swallowed: no call
\* of addImage or removeImage rejects.
C16_WriteFailureSwallowed ==
    \A k \in CallIds : ctxOps[k].pc # "rejected"

\* C17: addImage and removeImage are not atomic: each builds its list from
\* the images the provider rendered last (not from the current state or the
\* persisted entry), and its write, when it succeeds, replaces the persisted
\* entry by that list whatever was written in between.
C17_NotAtomic ==
    [][\A k \in CallIds :
          /\ (ctxOps[k].pc = "idle" /\ ctxOps'[k].pc = "writing") =>
                 LET list == ctxOps'[k].payload[1].list
                     n == Len(closureImages)
                 IN  IF ctxOps'[k].kind = "add"
                     THEN /\ Len(list) = n + 1
                          /\ SubSeq(list, 1, n) = JsonList(closureImages)
                     ELSE \E i \in 1..n :
                              list = JsonList(FilterOutId(closureImages, closureImages[i].id))
          /\ (ctxOps[k].pc = "writing" /\ ctxOps'[k].pc = "resolved") =>
                 stored' = ctxOps[k].payload]_vars

\* the record an add has written
AddedRecord(k) == ctxOps[k].payload[1].list[Len(ctxOps[k].payload[1].list)]

\* a lost update: only adds were made, two of them, both have persisted
\* their list, and the persisted list lacks the record of one of them
C17_Witness ==
    /\ \A k \in CallIds : ctxOps[k].kind \in {"none", "add"}
    /\ \E k, m \in CallIds :
           /\ k # m
           /\ ctxOps[k].pc = "resolved"
           /\ ctxOps[m].pc = "resolved"
           /\ StoredIsList
           /\ \A i \in 1..Len(stored[1].list) : stored[1].list[i] # AddedRecord(k)

(***************************************************************************)
(* Claims about the upload clients                                         *)
(***************************************************************************)
\* String.prototype.includes
Contains(s, pat) == \E i \in 1..Len(s) : IsAt(s, i, pat)

\* the POST of call c was answered with a non-2xx status
AnsweredNotOk(c) == c.response # NoResponse /\ ~Ok(c.response)

\* C8: every settled uploadImageToCloudinary call whose POST was answered with
\* a non-2xx status has rejected with an Error whose message contains the
\* decimal HTTP status of that response, and has returned no URL.
C8_StatusInMessage ==
    \A id \in CallIds :
        LET c == calls[id]
        IN  (c.fn = "cloudinary" /\ AnsweredNotOk(c) /\ Settled(c)) =>
                /\ c.pc = "rejected"
                /\ c.error.name = "Error"
                /\ Contains(c.error.message, NumberToString(c.response.status))
                /\ c.result = <<>>

\* C9: whatever went wrong in an upload client call (a non-2xx status, a
\* rejected fetch of the data: URL or of the POST, a body that cannot be read
\* or parsed, a storage error), the call has rejected with a plain Error that
\* carries a non-empty message and has returned no URL; a call answered with
\* a non-2xx status never resolves; all rejections have the same error type.
C9_SingleFailureSignal ==
    /\ \A id \in CallIds :
           LET c == calls[id]
           IN  /\ c.failure # "none" =>
                      /\ c.pc = "rejected"
                      /\ c.error.name = "Error"
                      /\ Len(c.error.message) > 0
                      /\ c.result = <<>>
               /\ AnsweredNotOk(c) => c.pc # "resolved"
               /\ c.pc = "rejected" => c.failure # "none"
    /\ \A i, j \in CallIds :
           (calls[i].pc = "rejected" /\ calls[j].pc = "rejected") =>
               calls[i].error.name = calls[j].error.name

\* a Cloudinary call failed on an unparseable body and a Firebase call failed
\* on the storage write
C9_Witness ==
    \E i, j \in CallIds :
        /\ calls[i].fn = "cloudinary" /\ calls[i].failure = "json"
        /\ calls[i].pc = "rejected"
        /\ calls[j].fn = "firebase" /\ calls[j].failure = "uploadBytes"
        /\ calls[j].pc = "rejected"

\* C10: an uploadImageToCloudinary call has resolved exactly when its POST was
\* answered with a success status and the body parsed as JSON, and its value
\* is then the secure_url field of that payload; a call that has not resolved
\* has returned nothing.
C10_ResolvesWithSecureUrl ==
    \A id \in CallIds :
        LET c == calls[id]
        IN  c.fn = "cloudinary" =>
                /\ c.pc = "resolved" =>
                       /\ Ok(c.response)
                       /\ c.payload # <<>>
                       /\ c.result = <<c.payload[1].secure_url>>
                /\ (Ok(c.response) /\ c.payload # <<>>) => c.pc = "resolved"
                /\ c.pc # "resolved" => c.result = <<>>

\* a Cloudinary call has resolved with the URL of the payload
C10_Witness ==
    \E id \in CallIds :
        /\ calls[id].fn = "cloudinary"
        /\ calls[id].pc = "resolved"
        /\ calls[id].response.status = 200
        /\ calls[id].result # <<>>

\* C11 as stated: every uploadImageToCloudinary call that has settled has
\* issued exactly one POST.
C11_ExactlyOnePost ==
    \A id \in CallIds :
        (calls[id].fn = "cloudinary" /\ Settled(calls[id])) => calls[id].posts = 1

\* C11 amended: an uploadImageToCloudinary call never issues a second POST,
\* whatever the first one came to; it has issued exactly one once it is past
\* the preparation of the file field (at once for a file URI), and none when
\* the fetch or the blob of a data: URL failed before.
C11_AtMostOnePost ==
    \A id \in CallIds :
        LET c == calls[id]
        IN  c.fn = "cloudinary" =>
                /\ c.posts <= 1
                /\ c.pc \in {"post", "text", "json", "resolved"} => c.posts = 1
                /\ c.pc = "rejected" =>
                       c.posts = IF c.failure \in {"dataFetch", "blob"} THEN 0 ELSE 1
                /\ ~StartsWith(c.imageUri, DataPrefix) => c.posts = 1

\* one call whose POST was rejected and one whose POST was answered with a
\* non-success status have both ended with one POST issued
C11_Witness ==
    \E i, j \in CallIds :
        /\ calls[i].pc = "rejected" /\ calls[i].failure = "post" /\ calls[i].posts = 1
        /\ calls[j].pc = "rejected" /\ calls[j].failure = "status" /\ calls[j].posts = 1

\* the text after the last "." of a file name (the whole name without one)
TrailingExtension(name) == SubSeq(name, LastDot(name) + 1, Len(name))

\* C12: the file field of the multipart payload is the blob decoded from the
\* source when the source starts with "data:" (and the payload is built only
\* after fetch and blob), and otherwise the URI itself with the MIME type
\* image/jpeg for the trailing extension jpg and image/<ext> for any other
\* extension ext.
C12_FileField ==
    \A id \in CallIds :
        LET c == calls[id]
            ext == TrailingExtension(c.fileName)
        IN  c.fn = "cloudinary" =>
                /\ c.pc \in {"dataFetch", "blob"} => c.formData = <<>>
                /\ c.formData # <<>> =>
                       /\ c.formData[1].name = "file"
                       /\ c.formData[1].text = c.imageUri
                       /\ IF StartsWith(c.imageUri, DataPrefix)
                          THEN c.formData[1].kind = "blob"
                          ELSE /\ c.formData[1].kind = "uri"
                               /\ c.formData[1].type =
                                      <<"i", "m", "a", "g", "e", "/">>
                                      \o (IF ext = S_jpg THEN <<"j", "p", "e", "g">> ELSE ext)

\* a jpg file URI and a png file URI have been posted with their MIME types
\* and a data: URL has been posted as a blob
C12_Witness ==
    /\ \E id \in CallIds :
           /\ calls[id].fileName = Name_photo_jpg /\ calls[id].formData # <<>>
           /\ calls[id].formData[1].type = <<"i", "m", "a", "g", "e", "/", "j", "p", "e", "g">>
    /\ \E id \in CallIds :
           \/ /\ calls[id].fileName = Name_my_pic_png /\ calls[id].formData # <<>>
              /\ calls[id].formData[1].type = <<"i", "m", "a", "g", "e", "/", "p", "n", "g">>
           \/ /\ calls[id].imageUri = DataUri /\ calls[id].formData # <<>>
              /\ calls[id].formData[1].kind = "blob"

\* C13: uploadImageToCloudinary never calls the onProgress callback it is
\* given: no value has been reported by any call, in flight, resolved or
\* rejected.
C13_NoProgressReported ==
    \A id \in CallIds :
        calls[id].fn = "cloudinary" => calls[id].progress = <<>>

\* one call has resolved and one has rejected, neither with a report
C13_Witness ==
    \E i, j \in CallIds :
        /\ calls[i].fn = "cloudinary" /\ calls[i].pc = "resolved" /\ calls[i].progress = <<>>
        /\ calls[j].fn = "cloudinary" /\ calls[j].pc = "rejected" /\ calls[j].progress = <<>>

\* a JavaScript number lies in [0, 100]
InPercentRange(v) == ~v.nan /\ v.den > 0 /\ v.num >= 0 /\ v.num <= 100 * v.den

\* C14: every value uploadImage has handed to its progress callback is the
\* percentage of a progress event with 0 <= bytesTransferred <= totalBytes,
\* lies in [0, 100], and was handed over before the upload promise settled.
C14_ProgressInRange ==
    \A id \in CallIds :
        \A i \in 1..Len(calls[id].progress) :
            /\ InPercentRange(calls[id].progress[i].value)
            /\ ~calls[id].progress[i].settled

\* C21: concurrent upload client calls are independent: every call that
\* reaches its backend issues its own request (one POST per Cloudinary call,
\* one object path per Firebase call), a step of one call leaves every other
\* call as it is, and what a call resolves or rejects with is given by its
\* own arguments and its own backend answer.
C21_Independent ==
    /\ [](\A id \in CallIds :
             LET c == calls[id]
             IN  /\ (c.fn = "cloudinary" /\ c.response # NoResponse) => c.posts = 1
                 /\ (c.fn = "cloudinary" /\ c.pc = "resolved") =>
                        /\ Ok(c.response)
                        /\ c.result = <<c.payload[1].secure_url>>
                 /\ (c.fn = "cloudinary" /\ c.pc = "rejected" /\ c.failure = "status") =>
                        /\ ~Ok(c.response)
                        /\ Contains(c.error.message, NumberToString(c.response.status))
                 /\ (c.fn = "firebase" /\ c.pc = "resolved") =>
                        /\ c.result = <<DownloadUrl(c.imageRef)>>
                        /\ \E t \in 1..now : c.imageRef = ImageRef(c.fileName, t))
    /\ [][\A i, j \in CallIds :
              (i # j /\ calls'[i] # calls[i]) => calls'[j] = calls[j]]_vars

\* two calls made with the same source at the same time have both posted,
\* and one has resolved while the other has rejected
C21_Witness ==
    \E i, j \in CallIds :
        /\ i # j
        /\ calls[i].fn = "cloudinary" /\ calls[j].fn = "cloudinary"
        /\ calls[i].imageUri = calls[j].imageUri
        /\ calls[i].formData = calls[j].formData
        /\ calls[i].posts = 1 /\ calls[j].posts = 1
        /\ calls[i].pc = "resolved"
        /\ calls[j].pc = "rejected"

\* C22: uploadImageToCloudinary retries: a call that has rejected because
\* the POST failed on the network has issued the POST more than once.
C22_RetriesBeforeFailing ==
    \A id \in CallIds :
        (calls[id].fn = "cloudinary" /\ calls[id].pc = "rejected"
         /\ calls[id].failure = "post") => calls[id].posts > 1

\* the file name without its extension: everything before the last "." (the
\* whole name without one)
BaseName(name) ==
    IF LastDot(name) > 0 THEN SubSeq(name, 1, LastDot(name) - 1) ELSE name

\* C25: the multipart payload of uploadImageToCloudinary has exactly one file
\* field plus the fields upload_preset, folder and public_id, where public_id
\* is <current time>_<base file name> and the base file name is everything
\* before the final extension of the file name; uploadImageToFirebase writes
\* to the path images/<timestamp>_<filename>.
C25_PayloadFields ==
    \A id \in CallIds :
        LET c == calls[id]
            fields == c.formData
        IN  /\ (c.fn = "cloudinary" /\ fields # <<>>) =>
                   /\ Cardinality({i \in DOMAIN fields : fields[i].name = "file"}) = 1
                   /\ Len(fields) = 4
                   /\ {fields[i].name : i \in DOMAIN fields} =
                          {"file", "upload_preset", "folder", "public_id"}
                   /\ \A i \in DOMAIN fields :
                          fields[i].name = "public_id" =>
                              \E t \in 0..now :
                                  fields[i].text =
                                      NumberToString(t) \o <<"_">> \o BaseName(c.fileName)
            /\ (c.fn = "firebase" /\ c.imageRef # <<>>) =>
                   \E t \in 0..now : c.imageRef = ImageRef(c.fileName, t)

\* C30: uploadImageToFirebase fetches its source and converts it to a blob
\* before the storage write, for a data: URL as for any other URI, and writes
\* once; a call that has rejected, on the fetch, the blob, the storage write
\* or the download-URL lookup, has rejected with an Error whose message is
\* exactly 'Failed to upload image to Firebase', with nothing of the message
\* of the error underneath.
C30_FixedFirebaseError ==
    /\ [](\A id \in CallIds :
             LET c == calls[id]
             IN  (c.fn = "firebase" /\ c.pc = "rejected") =>
                     /\ c.failure \in {"fbFetch", "fbBlob", "uploadBytes", "getDownloadURL"}
                     /\ c.error = [name |-> "Error", message |-> FirebaseErrorText]
                     /\ \A e \in FetchRejections \cup StorageRejections :
                            Len(e.message) > 0 => ~Contains(c.error.message, e.message)
                     /\ c.result = <<>>)
    /\ [][\A id \in CallIds :
              (calls'[id].fn = "firebase" /\ calls'[id].pc # calls[id].pc) =>
                  /\ calls[id].pc = "idle" => calls'[id].pc = "fbFetch"
                  /\ calls'[id].pc = "fbBlob" => calls[id].pc = "fbFetch"
                  /\ calls'[id].pc = "uploadBytes" => calls[id].pc = "fbBlob"
                  /\ calls[id].pc = "uploadBytes" =>
                         calls'[id].pc \in {"getDownloadURL", "rejected"}
                  /\ calls[id].pc \in {"getDownloadURL", "resolved", "rejected"} =>
                         calls'[id].pc \in {"resolved", "rejected"}]_vars

\* a call for a data: URL has rejected on the storage write, after its fetch
\* and blob, and a call for a file URI has rejected on its fetch
C30_Witness ==
    \E i, j \in CallIds :
        /\ calls[i].fn = "firebase" /\ StartsWith(calls[i].imageUri, DataPrefix)
        /\ calls[i].pc = "rejected" /\ calls[i].failure = "uploadBytes"
        /\ calls[j].fn = "firebase" /\ ~StartsWith(calls[j].imageUri, DataPrefix)
        /\ calls[j].pc = "rejected" /\ calls[j].failure = "fbFetch"

(***************************************************************************)
(* Specification SpecUrl: apply the builder, then its inverse              *)
(***************************************************************************)
InitUrl ==
    /\ publicId \in PublicIds
    /\ options \in OptionBags
    /\ url = <<>>
    /\ extracted = <<>>
    /\ urlPc = "args"
    /\ ClientIdle
    /\ ScreenIdle
    /\ ContextIdle

BuildUrl ==
    /\ urlPc = "args"
    /\ url' = getOptimizedImageUrl(publicId, options)
    /\ urlPc' = "built"
    /\ UNCHANGED <<publicId, options, extracted, clientVars, screenVars, ctxVars>>

ExtractPublicId ==
    /\ urlPc = "built"
    /\ extracted' = extractPublicIdFromUrl(url)
    /\ urlPc' = "extracted"
    /\ UNCHANGED <<publicId, options, url, clientVars, screenVars, ctxVars>>

\* extractPublicIdFromUrl applied to a URL that was handed in
ExtractFromDeliveredUrl ==
    /\ urlPc = "args"
    /\ \E u \in DeliveredUrls :
           /\ url' = u
           /\ extracted' = extractPublicIdFromUrl(u)
    /\ urlPc' = "read"
    /\ UNCHANGED <<publicId, options, clientVars, screenVars, ctxVars>>

NextUrl == BuildUrl \/ ExtractPublicId \/ ExtractFromDeliveredUrl

SpecUrl == InitUrl /\ [][NextUrl]_vars

(***************************************************************************)
(* Reading a built URL back: the directives between the fixed prefix and   *)
(* the asset id                                                            *)
(***************************************************************************)
\* the non-empty pieces of s between the separator characters seps
RECURSIVE SplitOn(_, _)
SplitOn(s, seps) ==
    LET hits == {i \in 1..Len(s) : s[i] \in seps}
    IN  IF hits = {} THEN (IF Len(s) = 0 THEN <<>> ELSE <<s>>)
        ELSE LET k == CHOOSE i \in hits : \A j \in hits : i <= j
             IN  (IF k > 1 THEN <<SubSeq(s, 1, k - 1)>> ELSE <<>>)
                 \o SplitOn(SubSeq(s, k + 1, Len(s)), seps)

\* what follows ".../image/upload/" in u
AfterUpload(u) == SubSeq(u, Len(UrlPrefix) + 1, Len(u))

\* the directives of the URL u built for the asset id
DirectivesOf(u, id) ==
    SplitOn(SubSeq(u, Len(UrlPrefix) + 1, Len(u) - Len(id)), {",", "/"})

\* position of a directive in the order dimensions (w_, h_), crop, quality, format
DirectiveRank(d) ==
    IF Len(d) < 2 \/ d[2] # "_" THEN 0
    ELSE CASE d[1] = "w" -> 1
           [] d[1] = "h" -> 2
           [] d[1] = "c" -> 3
           [] d[1] = "q" -> 4
           [] d[1] = "f" -> 5
           [] OTHER -> 0

HasDirective(u, id, letter) ==
    \E i \in 1..Len(DirectivesOf(u, id)) :
        LET d == DirectivesOf(u, id)[i] IN Len(d) >= 2 /\ d[1] = letter /\ d[2] = "_"

Built == urlPc \in {"built", "extracted"}

\* C1: in every URL the builder returns, every piece of the directive part is
\* one of w_, h_, c_, q_, f_, the pieces appear in the order width, height,
\* crop, quality, format, and a crop directive appears only when width or
\* height was passed.
C1_DirectiveOrder ==
    Built =>
        LET ds == DirectivesOf(url, publicId)
        IN  /\ \A i \in 1..Len(ds) : DirectiveRank(ds[i]) > 0
            /\ \A i, j \in 1..Len(ds) :
                   i < j => DirectiveRank(ds[i]) < DirectiveRank(ds[j])
            /\ HasDirective(url, publicId, "c") =>
                   (IsDefined(options.width) \/ IsDefined(options.height))

\* a URL was built with both dimensions and an explicit crop, and carries all
\* five directives
C1_Witness ==
    /\ urlPc = "built"
    /\ TruthyNum(options.width) /\ TruthyNum(options.height)
    /\ IsDefined(options.crop) /\ IsDefined(options.quality)
    /\ Len(DirectivesOf(url, publicId)) = 5

\* the canonical file extensions of hosted images
CanonicalExtensions == {S_jpg, S_png, S_webp}

EndsInCanonicalExtension(u) ==
    \E e \in CanonicalExtensions :
        IsAt(u, Len(u) - Len(e), <<".">> \o e)

\* the asset id without its final extension
WithoutExtension(id) ==
    IF LastDot(id) = 0 THEN id ELSE SubSeq(id, 1, LastDot(id) - 1)

\* C2: round trip: when the URL built for an asset id ends in a canonical
\* extension, extractPublicIdFromUrl of that URL is that asset id (with or
\* without the extension), with no directive in front of it.
C2_RoundTrip ==
    (urlPc = "extracted" /\ EndsInCanonicalExtension(url)) =>
        extracted \in {publicId, WithoutExtension(publicId)}

ScenarioOptions ==
    [width |-> Some(400), height |-> Some(300), quality |-> Some(QAuto),
     format |-> Some(S_webp), crop |-> Undefined]

IsScenario == Built /\ publicId = Id_abc123 /\ options = ScenarioOptions

\* C3 as stated: for ("abc123", {width:400, height:300, quality:"auto",
\* format:"webp"}) the part after "/image/upload/" is
\* "w_400,h_300/c_fill,q_auto,f_webp/abc123", a slash after the dimensions.
C3_SlashAfterDimensions ==
    IsScenario =>
        AfterUpload(url) =
            <<"w", "_", "4", "0", "0", ",", "h", "_", "3", "0", "0", "/",
              "c", "_", "f", "i", "l", "l", ",", "q", "_", "a", "u", "t", "o", ",",
              "f", "_", "w", "e", "b", "p", "/", "a", "b", "c", "1", "2", "3">>

\* C3 amended: for the same call the part after "/image/upload/" is
\* "w_400,h_300,c_fill,q_auto,f_webp/abc123": all five directives joined by
\* commas (c_fill is the default crop), one slash, then the asset id.
C3_CommaJoined ==
    IsScenario =>
        AfterUpload(url) =
            <<"w", "_", "4", "0", "0", ",", "h", "_", "3", "0", "0", ",",
              "c", "_", "f", "i", "l", "l", ",", "q", "_", "a", "u", "t", "o", ",",
              "f", "_", "w", "e", "b", "p", "/", "a", "b", "c", "1", "2", "3">>

\* the documented call has been made
C3_Witness == urlPc = "built" /\ publicId = Id_abc123 /\ options = ScenarioOptions

NoDimensionNoCrop ==
    /\ ~IsDefined(options.width)
    /\ ~IsDefined(options.height)
    /\ ~IsDefined(options.crop)

HasUploadPathAndExtension(u) ==
    \E i \in 1..Len(u) :
        /\ IsAt(u, i, UploadSegment)
        /\ \E d \in (i + Len(UploadSegment) + 1)..(Len(u) - 1) :
               /\ u[d] = "."
               /\ \A k \in (d + 1)..Len(u) : u[k] # "."

\* the "v<digits>/" that follows the first "/upload/" of the string, empty
\* when there is none
VersionSegment(u) ==
    LET at == {i \in 1..Len(u) : IsAt(u, i, UploadSegment)}
    IN  IF at = {} THEN <<>>
        ELSE LET i == CHOOSE k \in at : \A m \in at : k <= m
                 from == i + Len(UploadSegment)
             IN  IF VersionEnd(u, from) > 0
                 THEN SubSeq(u, from, VersionEnd(u, from) - 1)
                 ELSE <<>>

DirectiveCount(letter) ==
    Cardinality({i \in 1..Len(DirectivesOf(url, publicId)) :
                    LET d == DirectivesOf(url, publicId)[i]
                    IN  Len(d) >= 2 /\ d[1] = letter /\ d[2] = "_"})

\* the built URL ends with a slash and the asset id, unchanged
EndsWithSlashAndId ==
    /\ Len(url) > Len(publicId)
    /\ SubSeq(url, Len(url) - Len(publicId), Len(url)) = <<"/">> \o publicId

\* quality: 0 was passed
QualityIsZero == IsDefined(options.quality) /\ options.quality[1] = QNum(0)

====
